---- MODULE Spec2Model ----
(***************************************************************************)
(* The serving script app.py of the employee salary predictor, as a state  *)
(* machine.  Streamlit executes the whole script from its first line on    *)
(* every page load and on every widget interaction; one such script run is *)
(* one step of the model.  The state is the script's namespace after the   *)
(* run (the widget values and the variables the button handler assigns),   *)
(* what the run rendered (screen), the external calls it made in order     *)
(* (calls) and the number of joblib.load calls of the serving process.     *)
(*                                                                         *)
(* Amounts: Python floats are modelled as exact decimals.  A salary is a   *)
(* number of cents, a rate a number of hundredths, a product a decimal     *)
(* numeral with four fraction digits held as its little-endian digits (it  *)
(* exceeds 32 bits).  The salaries the model draws have an even number of  *)
(* cents, so no product lies half way between two cents and the rounding   *)
(* of the format is the same under every rounding rule.                    *)
(*                                                                         *)
(* Text: a character outside ASCII is written by its Unicode name, as in   *)
(* Python's \N{...} escape without the backslash.                          *)
(***************************************************************************)
EXTENDS Integers, Sequences, FiniteSets, TLC

\* ------------------------------------------------------------------ bounds

\* Script runs (hence joblib.load calls) of one serving process in the model.
MaxRuns == 6

\* Rows of the dataset file the training script reads in the model.
MaxRows == 3

\* ------------------------------------------------- currency table (app.py)

\* Rates are in hundredths: 83.5 is 8350.
USD_TO_INR_RATE == 8350
USD_TO_EUR_RATE == 92
USD_TO_GBP_RATE == 79
USD_TO_CAD_RATE == 137
USD_TO_AUD_RATE == 150
USD_TO_JPY_RATE == 15700
USD_TO_CHF_RATE == 89

Currency(symbol, name, rate) == [symbol |-> symbol, name |-> name, rate |-> rate]

EURO == Currency("N{EURO SIGN}", "EUR", USD_TO_EUR_RATE)

COUNTRY_CURRENCIES ==
    ("US" :> Currency("$", "USD", 100)) @@
    ("GB" :> Currency("N{POUND SIGN}", "GBP", USD_TO_GBP_RATE)) @@
    ("CA" :> Currency("C$", "CAD", USD_TO_CAD_RATE)) @@
    ("DE" :> EURO) @@
    ("IN" :> Currency("N{INDIAN RUPEE SIGN}", "INR", USD_TO_INR_RATE)) @@
    ("FR" :> EURO) @@
    ("ES" :> EURO) @@
    ("AU" :> Currency("A$", "AUD", USD_TO_AUD_RATE)) @@
    ("BR" :> Currency("R$", "BRL", 540)) @@
    ("NL" :> EURO) @@
    ("JP" :> Currency("N{YEN SIGN}", "JPY", USD_TO_JPY_RATE)) @@
    ("CH" :> Currency("CHF", "CHF", USD_TO_CHF_RATE)) @@
    ("IT" :> EURO) @@
    ("PL" :> Currency("zN{LATIN SMALL LETTER L WITH STROKE}", "PLN", 405)) @@
    ("PT" :> EURO) @@
    ("MX" :> Currency("$", "MXN", 1800)) @@
    ("DK" :> Currency("kr", "DKK", 690)) @@
    ("GR" :> EURO) @@
    ("TR" :> Currency("N{TURKISH LIRA SIGN}", "TRY", 3250)) @@
    ("AT" :> EURO) @@
    ("BE" :> EURO) @@
    ("IE" :> EURO) @@
    ("LU" :> EURO) @@
    ("NG" :> Currency("N{NAIRA SIGN}", "NGN", 150000)) @@
    ("PK" :> Currency("N{RUPEE SIGN}", "PKR", 27800)) @@
    ("RU" :> Currency("N{RUBLE SIGN}", "RUB", 8700)) @@
    ("SG" :> Currency("S$", "SGD", 135)) @@
    ("UA" :> Currency("N{HRYVNIA SIGN}", "UAH", 4000)) @@
    ("AE" :> Currency("N{ARABIC LETTER DAL}.N{ARABIC LETTER ALEF WITH HAMZA BELOW}", "AED", 367)) @@
    ("CL" :> Currency("CLP", "CLP", 93000)) @@
    ("CO" :> Currency("$", "COP", 400000)) @@
    ("CY" :> EURO) @@
    ("CZ" :> Currency("KN{LATIN SMALL LETTER C WITH CARON}", "CZK", 2300)) @@
    ("EE" :> EURO) @@
    ("FI" :> EURO) @@
    ("GH" :> Currency("N{CEDI SIGN}", "GHS", 1500)) @@
    ("HR" :> EURO) @@
    ("HU" :> Currency("Ft", "HUF", 36000)) @@
    ("IR" :> Currency("N{RIAL SIGN}", "IRR", 4200000)) @@
    ("MT" :> EURO) @@
    ("NZ" :> Currency("NZ$", "NZD", 163)) @@
    ("PH" :> Currency("N{PESO SIGN}", "PHP", 5800)) @@
    ("PR" :> Currency("$", "USD", 100)) @@
    ("RO" :> Currency("lei", "RON", 460)) @@
    ("SI" :> EURO) @@
    ("SK" :> EURO) @@
    ("TH" :> Currency("N{THAI CURRENCY SYMBOL BAHT}", "THB", 3600)) @@
    ("VN" :> Currency("N{DONG SIGN}", "VND", 2540000))

\* dict.get(key, default)
DictGet(dict, key, default) == IF key \in DOMAIN dict THEN dict[key] ELSE default

\* The default of the lookup in the button handler.
DEFAULT_CURRENCY == Currency("$", "USD", 100)

\* ------------------------------------------------------ decimal arithmetic

RECURSIVE DigitsOf(_)
\* The little-endian decimal digits of a natural number.
DigitsOf(n) == IF n < 10 THEN <<n>> ELSE <<n % 10>> \o DigitsOf(n \div 10)

RECURSIVE MulDigits(_, _, _)
\* digits * m + carry, digit by digit.
MulDigits(ds, m, carry) ==
    IF ds = <<>>
    THEN IF carry = 0 THEN <<>> ELSE DigitsOf(carry)
    ELSE LET t == Head(ds) * m + carry
         IN  <<t % 10>> \o MulDigits(Tail(ds), m, t \div 10)

\* salary (cents) * rate (hundredths): a decimal with four fraction digits.
Times(cents, rate) == MulDigits(DigitsOf(cents), rate, 0)

RECURSIVE Increment(_)
Increment(ds) ==
    IF ds = <<>> THEN <<1>>
    ELSE IF Head(ds) < 9 THEN <<Head(ds) + 1>> \o Tail(ds)
    ELSE <<0>> \o Increment(Tail(ds))

DigitAt(ds, i) == IF i <= Len(ds) THEN ds[i] ELSE 0

\* A decimal with four fraction digits rounded to two (the .2f of the format):
\* to the nearest cent, a tie to the even cent.
RoundToCents(ds) ==
    LET low  == DigitAt(ds, 1) + 10 * DigitAt(ds, 2)
        rest == IF Len(ds) > 2 THEN SubSeq(ds, 3, Len(ds)) ELSE <<0>>
        up   == low > 50 \/ (low = 50 /\ Head(rest) % 2 = 1)
    IN  IF up THEN Increment(rest) ELSE rest

DIGIT_CHARS == <<"0", "1", "2", "3", "4", "5", "6", "7", "8", "9">>

RECURSIVE GroupedFrom(_, _)
\* The digits from the i-th least significant one up, most significant first,
\* a comma between every two groups of three digits (the ',' of the format).
GroupedFrom(ds, i) ==
    IF i > Len(ds) THEN <<>>
    ELSE GroupedFrom(ds, i + 1)
         \o <<DIGIT_CHARS[ds[i] + 1]>>
         \o (IF i > 1 /\ (i - 1) % 3 = 0 THEN <<",">> ELSE <<>>)

\* FormatCents without the thousands separators (a '.2f' format).
FormatCentsUngrouped(ds) ==
    LET whole == IF Len(ds) > 2 THEN SubSeq(ds, 3, Len(ds)) ELSE <<0>>
    IN  [i \in 1 .. Len(whole) |-> DIGIT_CHARS[whole[Len(whole) + 1 - i] + 1]]
        \o <<".", DIGIT_CHARS[DigitAt(ds, 2) + 1], DIGIT_CHARS[DigitAt(ds, 1) + 1]>>

\* f"{x:,.2f}" of an amount given as the little-endian digits of its cents:
\* the characters of the text.
FormatCents(ds) ==
    LET whole == IF Len(ds) > 2 THEN SubSeq(ds, 3, Len(ds)) ELSE <<0>>
    IN  GroupedFrom(whole, 1) \o <<".", DIGIT_CHARS[DigitAt(ds, 2) + 1], DIGIT_CHARS[DigitAt(ds, 1) + 1]>>

RECURSIVE Join(_)
\* ''.join(chars)
Join(chars) == IF chars = <<>> THEN "" ELSE Head(chars) \o Join(Tail(chars))

RECURSIVE IntStr(_)
\* str(n) of a natural number, as an f-string renders it.
IntStr(n) ==
    IF n < 10 THEN DIGIT_CHARS[n + 1]
    ELSE IntStr(n \div 10) \o DIGIT_CHARS[(n % 10) + 1]

\* --------------------------------------------------- the form (app.py)

experience_level_options == <<"Entry-level", "Mid-level", "Senior", "Executive">>

\* company_location_options with "SE" (a code of the dataset that
\* COUNTRY_CURRENCIES has no entry for) added to the list.
company_location_options_with_SE ==
    <<"AE", "AT", "AU", "BE", "BR", "CA", "CH", "CL", "CO", "CY", "CZ", "DE",
      "DK", "EE", "ES", "FI", "FR", "GB", "GH", "GR", "HR", "HU", "IE", "IN",
      "IR", "IT", "JP", "LU", "MT", "MX", "NG", "NL", "NZ", "PH", "PK", "PL",
      "PR", "PT", "RO", "RU", "SE", "SG", "SI", "SK", "TH", "TR", "UA", "US", "VN">>

\* sorted([...]) of the 48 country codes, written out in sorted order.
company_location_options ==
    <<"AE", "AT", "AU", "BE", "BR", "CA", "CH", "CL", "CO", "CY", "CZ", "DE",
      "DK", "EE", "ES", "FI", "FR", "GB", "GH", "GR", "HR", "HU", "IE", "IN",
      "IR", "IT", "JP", "LU", "MT", "MX", "NG", "NL", "NZ", "PH", "PK", "PL",
      "PR", "PT", "RO", "RU", "SG", "SI", "SK", "TH", "TR", "UA", "US", "VN">>

\* sorted([...]) of the 23 job titles, written out in sorted order (code point
\* order: "BI Developer" precedes "Big Data Engineer").
job_title_options ==
    <<"AI Engineer", "Analytics Engineer", "BI Developer", "Big Data Engineer",
      "Computer Vision Engineer", "Data Analyst", "Data Architect",
      "Data Engineer", "Data Science Consultant", "Data Scientist",
      "Deep Learning Engineer", "ETL Developer", "Financial Data Analyst",
      "Head of Data", "Lead Data Analyst", "Lead Data Scientist", "ML Engineer",
      "Machine Learning Engineer", "Other", "Principal Data Scientist",
      "Research Engineer", "Research Scientist", "Software Engineer">>

Range(seq) == {seq[i] : i \in DOMAIN seq}

\* st.number_input("Work Year", min_value, max_value, value, step)
WORK_YEAR_MIN == 2020
WORK_YEAR_MAX == 2025
WORK_YEAR_DEFAULT == 2024
WorkYears == WORK_YEAR_MIN .. WORK_YEAR_MAX

\* st.slider("Remote Work Ratio (%)", min_value, max_value, value, step)
REMOTE_RATIO_MIN == 0
REMOTE_RATIO_MAX == 100
REMOTE_RATIO_DEFAULT == 0
REMOTE_RATIO_STEP == 5
RemoteRatios ==
    {r \in REMOTE_RATIO_MIN .. REMOTE_RATIO_MAX :
        (r - REMOTE_RATIO_MIN) % REMOTE_RATIO_STEP = 0}

\* A select box starts at options[index]; index defaults to 0.
experience_level_default == experience_level_options[1]
job_title_default == job_title_options[1]
\* index = company_location_options.index("IN") if "IN" is an option, else 0
company_location_default ==
    IF "IN" \in Range(company_location_options)
    THEN "IN" ELSE company_location_options[1]

\* The features list of the training script.
features ==
    <<"experience_level", "job_title", "company_location", "remote_ratio", "work_year">>

\* ------------------------------------------- the values the model draws

\* What the user types or picks. A select box takes only one of its options;
\* the number input and the slider take only a value of their range (a year
\* past the maximum and a ratio off the step are tried and not taken).
NamePicks == {"", "Jane Doe"}
ExperiencePicks == {"Entry-level", "Senior"}
JobTitlePicks == {"AI Engineer", "Data Scientist"}
LocationPicks == Range(company_location_options)
WorkYearPicks == {WORK_YEAR_MIN, WORK_YEAR_DEFAULT, WORK_YEAR_MAX + 1}
RemoteRatioPicks == {REMOTE_RATIO_DEFAULT, 50, 52}

\* The artifact file as joblib.load finds it: loadable, absent, or not a
\* loadable pickle.
Artifacts == {"ok", "missing", "malformed"}

\* Salaries (in cents) the loaded pipeline may predict: 100000.00, 1234.56,
\* 999.98.
Salaries == {10000000, 123456, 99998}

\* What model_pipeline.predict(input_data) does: it raises, or returns an
\* array of predictions (one per row for a fitted pipeline; the artifact is
\* opaque, so an empty and a longer array are drawn too).
Response(raises, preds) == [raises |-> raises, preds |-> preds]
Responses ==
    {Response(TRUE, <<>>), Response(FALSE, <<>>)}
    \cup {Response(FALSE, <<s>>) : s \in Salaries}
    \cup {Response(FALSE, <<123456, 10000000>>)}

\* ------------------------------------------------------------ the state

VARIABLES
    employee_name,          \* st.text_input("Employee Name")
    experience_level,       \* st.selectbox("Experience Level")
    job_title,              \* st.selectbox("Job Title")
    company_location,       \* st.selectbox("Company Location (Country Code)")
    work_year,              \* st.number_input("Work Year")
    remote_ratio,           \* st.slider("Remote Work Ratio (%)")
    button,                 \* what st.button("Predict Salary") returned in the last run
                            \* (FALSE when the run ended before reaching it)
    artifact,               \* the artifact file as the last run's joblib.load found it
                            \* ("unread" before the first run)
    model_pipeline,         \* "unbound" or "loaded"
    input_data,             \* <<>> (unbound) or <<the feature table>>
    prediction,             \* <<>> (predict not called) or <<what predict did>>
    predicted_salary_usd,   \* <<>> or <<cents>>
    local_currency_info,    \* <<>> or <<the currency record>>
    predicted_salary_local, \* <<>> or <<digits of the product, four fraction digits>>
    output_string,          \* <<>> or <<the result panel>>
    screen,                 \* the elements the last run rendered, in order
    calls,                  \* the external calls of the last run, in order
    loadCalls,              \* joblib.load calls of the serving process so far
    prev_failed,            \* history: the run before the last one ended in the
                            \* handler's except clause
    train                   \* the run of train_model.py: where it is, the dataset
                            \* file it was given, its variables, what it printed

widgets ==
    <<employee_name, experience_level, job_title, company_location, work_year, remote_ratio>>

vars ==
    <<employee_name, experience_level, job_title, company_location, work_year,
      remote_ratio, button, artifact, model_pipeline, input_data, prediction,
      predicted_salary_usd, local_currency_info, predicted_salary_local,
      output_string, screen, calls, loadCalls, prev_failed, train>>

\* ------------------------------------------------------- the script run

Element(kind, text) == [kind |-> kind, text |-> text]

LOAD_CALL == "joblib.load('salary_prediction_model.pkl')"
SLEEP_CALL == "time.sleep(1)"
PREDICT_CALL == "model_pipeline.predict(input_data)"

LOADED_MESSAGE == "Machine Learning model loaded successfully!"
NOT_FOUND_MESSAGE ==
    "Error: Model file 'salary_prediction_model.pkl' not found. Please ensure your trained model is saved and accessible in the same directory."
NAME_WARNING == "Please enter the Employee Name."
CHECK_INPUT_WARNING ==
    "Please check your input values and ensure the model is correctly trained for these features."

\* LoadModel with the st.stop() of the second except clause forgotten.
LoadModelGoesOn(file) ==
    IF file = "ok"
    THEN [model_pipeline |-> "loaded", stopped |-> FALSE,
          screen |-> <<Element("success", LOADED_MESSAGE)>>]
    ELSE IF file = "missing"
    THEN [model_pipeline |-> "unbound", stopped |-> TRUE,
          screen |-> <<Element("error", NOT_FOUND_MESSAGE)>>]
    ELSE [model_pipeline |-> "unbound", stopped |-> FALSE,
          screen |-> <<Element("error", "Error loading the model: UnpicklingError")>>]

\* The try/except around joblib.load: what it binds and renders, and whether
\* st.stop() ended the run.
LoadModel(file) ==
    IF file = "ok"
    THEN [model_pipeline |-> "loaded", stopped |-> FALSE,
          screen |-> <<Element("success", LOADED_MESSAGE)>>]
    ELSE IF file = "missing"
    THEN [model_pipeline |-> "unbound", stopped |-> TRUE,
          screen |-> <<Element("error", NOT_FOUND_MESSAGE)>>]
    ELSE [model_pipeline |-> "unbound", stopped |-> TRUE,
          screen |-> <<Element("error", "Error loading the model: UnpicklingError")>>]

\* The input widgets, the confirmation section and the button, as rendered.
Form(name, exp, job, loc, wy, rr) ==
    <<Element("text_input", "Employee Name"),
      Element("selectbox", "Experience Level"),
      Element("selectbox", "Company Location (Country Code)"),
      Element("number_input", "Work Year"),
      Element("slider", "Remote Work Ratio (%)"),
      Element("selectbox", "Job Title"),
      Element("write", "**Employee Name:** " \o (IF name # "" THEN name ELSE "Not entered")),
      Element("write", "**Experience Level:** " \o exp),
      Element("write", "**Company Location:** " \o loc),
      Element("write", "**Work Year:** " \o IntStr(wy)),
      Element("write", "**Remote Ratio:** " \o IntStr(rr) \o "%"),
      Element("write", "**Job Title:** " \o job),
      Element("button", "Predict Salary")>>

\* pd.DataFrame(rows, columns=columns)
DataFrame(rows, columns) == [columns |-> columns, data |-> rows]

\* SpinnerCalls with the delay after the prediction.
SpinnerCallsPredictFirst == <<PREDICT_CALL, SLEEP_CALL>>

\* The calls made under the spinner, in order.
SpinnerCalls == <<SLEEP_CALL, PREDICT_CALL>>

\* LocalCurrencyInfo with an empty default entry.
LocalCurrencyInfoNoDefault(loc) == DictGet(COUNTRY_CURRENCIES, loc, Currency("", "", 0))

\* COUNTRY_CURRENCIES.get(company_location, {"symbol": "$", "name": "USD", "rate": 1.0})
LocalCurrencyInfo(loc) == DictGet(COUNTRY_CURRENCIES, loc, DEFAULT_CURRENCY)

\* LocalSalary converted at the INR rate whatever the currency.
LocalSalaryAtInrRate(usd, info) == Times(usd, USD_TO_INR_RATE)

\* predicted_salary_usd * local_currency_info["rate"]
LocalSalary(usd, info) == Times(usd, info.rate)

\* predicted_salary_usd * USD_TO_INR_RATE
InrSalary(usd) == Times(usd, USD_TO_INR_RATE)

\* ShowsLocalLine with the INR test forgotten.
ShowsLocalLineUnlessUsd(info) == info.name # "USD"

\* The condition under which the local-currency line is appended.
ShowsLocalLine(info) == info.name # "USD" /\ info.name # "INR"

\* One '<br>{symbol}{amount:,.2f} ({name})' piece of output_string.
Line(symbol, amount, name) == [symbol |-> symbol, amount |-> amount, name |-> name]
LineText(line) == line.symbol \o Join(line.amount) \o " (" \o line.name \o ")"

\* The currency lines of output_string, in the order they are appended.
CurrencyLines(usd, info) ==
    <<Line("$", FormatCents(DigitsOf(usd)), "USD"),
      Line("N{INDIAN RUPEE SIGN}", FormatCents(RoundToCents(InrSalary(usd))), "INR")>>
    \o (IF ShowsLocalLine(info)
        THEN <<Line(info.symbol, FormatCents(RoundToCents(LocalSalary(usd, info))), info.name)>>
        ELSE <<>>)

\* output_string: the heading, the currency lines, the input summary.
Panel(name, exp, job, loc, rr, wy, usd, info) ==
    [heading |-> "Predicted Salary for " \o name \o ":",
     lines   |-> CurrencyLines(usd, info),
     summary |-> <<"Experience Level: " \o exp, "Job Title: " \o job,
                   "Company Location: " \o loc, "Work Year: " \o IntStr(wy),
                   "Remote Ratio: " \o IntStr(rr) \o "%">>]

RECURSIVE JoinWith(_, _)
JoinWith(sep, texts) ==
    IF texts = <<>> THEN ""
    ELSE IF Len(texts) = 1 THEN texts[1]
    ELSE texts[1] \o sep \o JoinWith(sep, Tail(texts))

\* The text st.markdown renders for a panel (markup other than <br> left out).
PanelText(panel) ==
    JoinWith("<br>", <<panel.heading>> \o [i \in DOMAIN panel.lines |-> LineText(panel.lines[i])])
    \o " Based on your inputs: " \o JoinWith("; ", panel.summary)

\* PredictionFailed without the suggestion to check the inputs.
PredictionFailedErrorOnly(e) ==
    <<Element("error", "An error occurred during prediction: " \o e)>>

\* What the except clause of the handler renders for exception e.
PredictionFailed(e) ==
    <<Element("error", "An error occurred during prediction: " \o e),
      Element("warning", CHECK_INPUT_WARNING)>>

\* What a successful try body renders.
PredictionShown(panel) ==
    <<Element("markdown", PanelText(panel)), Element("balloons", "")>>

\* TakenPrediction taking the last element.
TakenPredictionLast(preds) == preds[Len(preds)]

\* The element of the predictions the handler takes as predicted_salary_usd.
TakenPrediction(preds) == preds[1]

Unbound ==
    [button |-> FALSE, input_data |-> <<>>, prediction |-> <<>>, predicted_salary_usd |-> <<>>,
     local_currency_info |-> <<>>, predicted_salary_local |-> <<>>,
     output_string |-> <<>>, screen |-> <<>>, calls |-> <<>>]

\* The else branch of the handler: the feature table, then the try/except.
PredictSalary(name, exp, job, loc, rr, wy, response) ==
    LET table == DataFrame(<< <<exp, job, loc, rr, wy>> >>,
                           <<"experience_level", "job_title", "company_location",
                             "remote_ratio", "work_year">>)
        called == [Unbound EXCEPT !.button = TRUE,
                                  !.input_data = <<table>>,
                                  !.prediction = <<response>>,
                                  !.calls = SpinnerCalls]
    IN  IF response.raises
        THEN [called EXCEPT !.screen = PredictionFailed("ValueError")]
        ELSE IF response.preds = <<>>
        THEN [called EXCEPT !.screen = PredictionFailed("IndexError")]
        ELSE LET usd   == TakenPrediction(response.preds)
                 info  == LocalCurrencyInfo(loc)
                 panel == Panel(name, exp, job, loc, rr, wy, usd, info)
             IN  [called EXCEPT !.predicted_salary_usd = <<usd>>,
                                !.local_currency_info = <<info>>,
                                !.predicted_salary_local = <<LocalSalary(usd, info)>>,
                                !.output_string = <<panel>>,
                                !.screen = PredictionShown(panel)]

\* ButtonHandler without the name check.
ButtonHandlerNoNameCheck(pressed, name, exp, job, loc, rr, wy, response) ==
    IF ~pressed THEN Unbound
    ELSE PredictSalary(name, exp, job, loc, rr, wy, response)

\* ButtonHandler keeping the last result on the page: a run in which the
\* button is not pressed renders the panel of the run before again.
ButtonHandlerKeepsResult(pressed, name, exp, job, loc, rr, wy, response) ==
    IF ~pressed
    THEN IF output_string # <<>>
         THEN [Unbound EXCEPT !.output_string = output_string,
                              !.screen = PredictionShown(output_string[1])]
         ELSE Unbound
    ELSE IF name = ""
    THEN [Unbound EXCEPT !.button = TRUE, !.screen = <<Element("warning", NAME_WARNING)>>]
    ELSE PredictSalary(name, exp, job, loc, rr, wy, response)

\* if st.button("Predict Salary"): the name check, then the prediction.
ButtonHandler(pressed, name, exp, job, loc, rr, wy, response) ==
    IF ~pressed THEN Unbound
    ELSE IF name = ""
    THEN [Unbound EXCEPT !.button = TRUE, !.screen = <<Element("warning", NAME_WARNING)>>]
    ELSE PredictSalary(name, exp, job, loc, rr, wy, response)

\* One run of app.py from its first line: the namespace it leaves, what it
\* rendered and what it called.
Script(name, exp, job, loc, wy, rr, pressed, file, response) ==
    LET load == LoadModel(file)
    IN  IF load.stopped
        THEN [Unbound EXCEPT !.screen = load.screen, !.calls = <<LOAD_CALL>>]
             @@ [model_pipeline |-> load.model_pipeline]
        ELSE LET h == ButtonHandler(pressed, name, exp, job, loc, rr, wy, response)
             IN  [h EXCEPT !.screen = load.screen \o Form(name, exp, job, loc, wy, rr) \o h.screen,
                           !.calls = <<LOAD_CALL>> \o h.calls]
                 @@ [model_pipeline |-> load.model_pipeline]

\* The last run ended in the except clause of the handler: predict was called
\* and raised, or its result had no first element.
ExceptTaken ==
    /\ prediction # <<>>
    /\ (prediction[1].raises \/ prediction[1].preds = <<>>)

\* The state after a script run with the given widget values.
Run(name, exp, job, loc, wy, rr, pressed, file, response) ==
    /\ loadCalls < MaxRuns
    /\ \E r \in {Script(name, exp, job, loc, wy, rr, pressed, file, response)} :
        /\ employee_name' = name
        /\ experience_level' = exp
        /\ job_title' = job
        /\ company_location' = loc
        /\ work_year' = wy
        /\ remote_ratio' = rr
        /\ button' = r.button
        /\ artifact' = file
        /\ model_pipeline' = r.model_pipeline
        /\ input_data' = r.input_data
        /\ prediction' = r.prediction
        /\ predicted_salary_usd' = r.predicted_salary_usd
        /\ local_currency_info' = r.local_currency_info
        /\ predicted_salary_local' = r.predicted_salary_local
        /\ output_string' = r.output_string
        /\ screen' = r.screen
        /\ calls' = r.calls
        /\ loadCalls' = loadCalls + 1
        /\ prev_failed' = ExceptTaken
        /\ train' = train

\* The form is on the page: the last run got past the model loading.
FormRendered == model_pipeline = "loaded"

\* The response is drawn only where predict is called.
NoResponse == Response(TRUE, <<>>)

\* ------------------------------------------------------------ the steps

\* train_model.py is not run by the serving process.
NotTraining ==
    [pc |-> "idle", dataset |-> [exists |-> FALSE, columns |-> {}, rows |-> 0, nan_rows |-> 0],
     df |-> <<>>, missing_cols |-> <<>>, split |-> <<>>, printed |-> <<>>,
     fitted |-> FALSE, evaluated |-> FALSE, dumped |-> FALSE, error |-> ""]

Init ==
    /\ train = NotTraining
    /\ employee_name = ""
    /\ experience_level = experience_level_default
    /\ job_title = job_title_default
    /\ company_location = company_location_default
    /\ work_year = WORK_YEAR_DEFAULT
    /\ remote_ratio = REMOTE_RATIO_DEFAULT
    /\ button = FALSE
    /\ artifact = "unread"
    /\ model_pipeline = "unbound"
    /\ input_data = <<>>
    /\ prediction = <<>>
    /\ predicted_salary_usd = <<>>
    /\ local_currency_info = <<>>
    /\ predicted_salary_local = <<>>
    /\ output_string = <<>>
    /\ screen = <<>>
    /\ calls = <<>>
    /\ loadCalls = 0
    /\ prev_failed = FALSE

\* The browser opens or reloads the page: a new session, every widget at its
\* default.
OpenPage ==
    \E file \in Artifacts :
        Run("", experience_level_default, job_title_default, company_location_default,
            WORK_YEAR_DEFAULT, REMOTE_RATIO_DEFAULT, FALSE, file, NoResponse)

EditName ==
    \E v \in NamePicks \ {employee_name}, file \in Artifacts :
        /\ FormRendered
        /\ Run(v, experience_level, job_title, company_location, work_year,
               remote_ratio, FALSE, file, NoResponse)

SelectExperienceLevel ==
    \E v \in (ExperiencePicks \cap Range(experience_level_options)) \ {experience_level},
       file \in Artifacts :
        /\ FormRendered
        /\ Run(employee_name, v, job_title, company_location, work_year,
               remote_ratio, FALSE, file, NoResponse)

SelectJobTitle ==
    \E v \in (JobTitlePicks \cap Range(job_title_options)) \ {job_title},
       file \in Artifacts :
        /\ FormRendered
        /\ Run(employee_name, experience_level, v, company_location, work_year,
               remote_ratio, FALSE, file, NoResponse)

SelectCompanyLocation ==
    \E v \in (LocationPicks \cap Range(company_location_options)) \ {company_location},
       file \in Artifacts :
        /\ FormRendered
        /\ Run(employee_name, experience_level, job_title, v, work_year,
               remote_ratio, FALSE, file, NoResponse)

SetWorkYear ==
    \E v \in (WorkYearPicks \cap WorkYears) \ {work_year}, file \in Artifacts :
        /\ FormRendered
        /\ Run(employee_name, experience_level, job_title, company_location, v,
               remote_ratio, FALSE, file, NoResponse)

SetRemoteRatio ==
    \E v \in (RemoteRatioPicks \cap RemoteRatios) \ {remote_ratio}, file \in Artifacts :
        /\ FormRendered
        /\ Run(employee_name, experience_level, job_title, company_location,
               work_year, v, FALSE, file, NoResponse)

PressPredict ==
    \E file \in Artifacts, response \in Responses :
        /\ FormRendered
        /\ Run(employee_name, experience_level, job_title, company_location,
               work_year, remote_ratio, TRUE, file, response)

Next ==
    \/ OpenPage
    \/ EditName
    \/ SelectExperienceLevel
    \/ SelectJobTitle
    \/ SelectCompanyLocation
    \/ SetWorkYear
    \/ SetRemoteRatio
    \/ PressPredict

Spec == Init /\ [][Next]_vars

\* ------------------------------------------- the conversion on any code

\* Country codes of the salary dataset that COUNTRY_CURRENCIES has no entry for.
UnmappedCodes == {"SE", "KE"}

\* The handler applied to any code, mapped or not: the page is open with the
\* form filled in any way the picks allow and the select box holding any code,
\* after all but two of the runs the model allows, and the button is pressed.
ConvInit ==
    \E name \in NamePicks, exp \in ExperiencePicks, job \in JobTitlePicks,
       loc \in Range(company_location_options) \cup UnmappedCodes,
       wy \in WorkYearPicks \cap WorkYears, rr \in RemoteRatioPicks \cap RemoteRatios :
        \E r \in {Script(name, exp, job, loc, wy, rr, FALSE, "ok", NoResponse)} :
            /\ employee_name = name
            /\ experience_level = exp
            /\ job_title = job
            /\ company_location = loc
            /\ work_year = wy
            /\ remote_ratio = rr
            /\ button = r.button
            /\ artifact = "ok"
            /\ model_pipeline = r.model_pipeline
            /\ input_data = r.input_data
            /\ prediction = r.prediction
            /\ predicted_salary_usd = r.predicted_salary_usd
            /\ local_currency_info = r.local_currency_info
            /\ predicted_salary_local = r.predicted_salary_local
            /\ output_string = r.output_string
            /\ screen = r.screen
            /\ calls = r.calls
            /\ loadCalls = MaxRuns - 2
            /\ prev_failed = FALSE
            /\ train = NotTraining

ConvSpec == ConvInit /\ [][PressPredict]_vars


\* ------------------------------------------ the training script run

\* The target column of the training script.
target == "salary_in_usd"

\* A column of ds_salaries.csv that is neither a feature nor the target.
OtherColumns == {"salary_currency"}

\* The dataset file as the training script finds it: absent, or a CSV with
\* some of the required columns, rows whose target is present and rows whose
\* target is NaN (none when the file has no target column).
Dataset(exists, columns, rows, nan_rows) ==
    [exists |-> exists, columns |-> columns, rows |-> rows, nan_rows |-> nan_rows]
Datasets ==
    {Dataset(FALSE, {}, 0, 0)}
    \cup {d \in [exists : {TRUE},
                 columns : {cols \cup OtherColumns : cols \in SUBSET (Range(features) \cup {target})},
                 rows : 0 .. MaxRows, nan_rows : 0 .. 1] :
             target \in d.columns \/ d.nan_rows = 0}

\* print(...): the message and the list it formats (<<>> when none).
Printed(msg, arg) == [msg |-> msg, arg |-> arg]

DATASET_NOT_FOUND ==
    "Error: 'ds_salaries.csv' not found. Please make sure the CSV file is in the same directory as this script."
MISSING_COLUMNS == "Error: The following required columns are missing from your dataset:"

\* [col for col in features + [target] if col not in df.columns]
MissingCols(columns) ==
    LET absent(col) == col \notin columns
    IN  SelectSeq(features \o <<target>>, absent)

\* train_test_split(X, y, test_size=0.2): the sizes of the training and the
\* test part of n rows (the test part is ceil(0.2 n)).
TrainTestSplit(n) == [train |-> n - ((n + 4) \div 5), test |-> (n + 4) \div 5]

TrainAt(pc) == train.pc = pc

\* Section 1: pd.read_csv('ds_salaries.csv'), exit() on FileNotFoundError.
LoadDataset ==
    /\ TrainAt("load")
    /\ train' =
          IF ~train.dataset.exists
          THEN [train EXCEPT !.pc = "exited",
                             !.printed = @ \o <<Printed(DATASET_NOT_FOUND, <<>>)>>]
          ELSE [train EXCEPT !.pc = "dropna",
                             !.df = <<[columns |-> train.dataset.columns,
                                       rows |-> train.dataset.rows + train.dataset.nan_rows]>>,
                             !.printed = @ \o <<Printed("Dataset 'ds_salaries.csv' loaded successfully!", <<>>)>>]
    /\ UNCHANGED <<employee_name, experience_level, job_title, company_location,
                   work_year, remote_ratio, button, artifact, model_pipeline,
                   input_data, prediction, predicted_salary_usd, local_currency_info,
                   predicted_salary_local, output_string, screen, calls, loadCalls,
                   prev_failed>>

\* Section 2: df.dropna(subset=['salary_in_usd'], inplace=True); a frame
\* without that column makes dropna raise KeyError, which nothing catches.
DropTargetNaN ==
    /\ TrainAt("dropna")
    /\ train' =
          IF "salary_in_usd" \notin train.df[1].columns
          THEN [train EXCEPT !.pc = "crashed", !.error = "KeyError"]
          ELSE [train EXCEPT !.pc = "check",
                             !.df = <<[columns |-> train.df[1].columns,
                                       rows |-> train.df[1].rows - train.dataset.nan_rows]>>,
                             !.printed = @ \o (IF train.dataset.nan_rows > 0
                                               THEN <<Printed("Dropped rows with missing 'salary_in_usd' values.", <<>>)>>
                                               ELSE <<>>)]
    /\ UNCHANGED <<employee_name, experience_level, job_title, company_location,
                   work_year, remote_ratio, button, artifact, model_pipeline,
                   input_data, prediction, predicted_salary_usd, local_currency_info,
                   predicted_salary_local, output_string, screen, calls, loadCalls,
                   prev_failed>>

\* Section 4: the missing_cols check, exit() when a required column is absent.
CheckColumns ==
    /\ TrainAt("check")
    /\ \E missing \in {MissingCols(train.df[1].columns)} :
          train' =
              IF missing # <<>>
              THEN [train EXCEPT !.pc = "exited", !.missing_cols = missing,
                                 !.printed = @ \o <<Printed(MISSING_COLUMNS, missing)>>]
              ELSE [train EXCEPT !.pc = "split", !.missing_cols = missing]
    /\ UNCHANGED <<employee_name, experience_level, job_title, company_location,
                   work_year, remote_ratio, button, artifact, model_pipeline,
                   input_data, prediction, predicted_salary_usd, local_currency_info,
                   predicted_salary_local, output_string, screen, calls, loadCalls,
                   prev_failed>>

\* Section 5: train_test_split, which raises ValueError when the training
\* part would be empty.
SplitData ==
    /\ TrainAt("split")
    /\ \E parts \in {TrainTestSplit(train.df[1].rows)} :
          train' =
              IF train.df[1].rows = 0 \/ parts.train = 0
              THEN [train EXCEPT !.pc = "crashed", !.error = "ValueError"]
              ELSE [train EXCEPT !.pc = "fit", !.split = <<parts>>]
    /\ UNCHANGED <<employee_name, experience_level, job_title, company_location,
                   work_year, remote_ratio, button, artifact, model_pipeline,
                   input_data, prediction, predicted_salary_usd, local_currency_info,
                   predicted_salary_local, output_string, screen, calls, loadCalls,
                   prev_failed>>

\* model_pipeline.fit(X_train, y_train): it returns, or raises on values the
\* transformers cannot take (the cell values are not modelled).
FitModel ==
    /\ TrainAt("fit")
    /\ \E raises \in BOOLEAN :
          train' =
              IF raises
              THEN [train EXCEPT !.pc = "crashed", !.error = "ValueError"]
              ELSE [train EXCEPT !.pc = "evaluate", !.fitted = TRUE,
                                 !.printed = @ \o <<Printed("Model training complete!", <<>>)>>]
    /\ UNCHANGED <<employee_name, experience_level, job_title, company_location,
                   work_year, remote_ratio, button, artifact, model_pipeline,
                   input_data, prediction, predicted_salary_usd, local_currency_info,
                   predicted_salary_local, output_string, screen, calls, loadCalls,
                   prev_failed>>

\* Section 6: predict on the test part and print R2, MAE and RMSE.
EvaluateModel ==
    /\ TrainAt("evaluate")
    /\ train' = [train EXCEPT !.pc = "dump", !.evaluated = TRUE,
                              !.printed = @ \o <<Printed("Model Evaluation on Test Set:", <<>>)>>]
    /\ UNCHANGED <<employee_name, experience_level, job_title, company_location,
                   work_year, remote_ratio, button, artifact, model_pipeline,
                   input_data, prediction, predicted_salary_usd, local_currency_info,
                   predicted_salary_local, output_string, screen, calls, loadCalls,
                   prev_failed>>

\* Section 7: joblib.dump(model_pipeline, 'salary_prediction_model.pkl').
DumpModel ==
    /\ TrainAt("dump")
    /\ train' = [train EXCEPT !.pc = "done", !.dumped = TRUE,
                              !.printed = @ \o <<Printed("Model saved successfully as 'salary_prediction_model.pkl'", <<>>)>>]
    /\ UNCHANGED <<employee_name, experience_level, job_title, company_location,
                   work_year, remote_ratio, button, artifact, model_pipeline,
                   input_data, prediction, predicted_salary_usd, local_currency_info,
                   predicted_salary_local, output_string, screen, calls, loadCalls,
                   prev_failed>>

\* The training script starts on any of the dataset files; the serving
\* script is not running.
TrainInit ==
    /\ \E d \in Datasets : train = [NotTraining EXCEPT !.pc = "load", !.dataset = d]
    /\ employee_name = ""
    /\ experience_level = experience_level_default
    /\ job_title = job_title_default
    /\ company_location = company_location_default
    /\ work_year = WORK_YEAR_DEFAULT
    /\ remote_ratio = REMOTE_RATIO_DEFAULT
    /\ button = FALSE
    /\ artifact = "unread"
    /\ model_pipeline = "unbound"
    /\ input_data = <<>>
    /\ prediction = <<>>
    /\ predicted_salary_usd = <<>>
    /\ local_currency_info = <<>>
    /\ predicted_salary_local = <<>>
    /\ output_string = <<>>
    /\ screen = <<>>
    /\ calls = <<>>
    /\ loadCalls = 0
    /\ prev_failed = FALSE

TrainNext ==
    \/ LoadDataset
    \/ DropTargetNaN
    \/ CheckColumns
    \/ SplitData
    \/ FitModel
    \/ EvaluateModel
    \/ DumpModel

TrainSpec == TrainInit /\ [][TrainNext]_vars

\* ------------------------------------------------------------ the claims

Has(kind) == \E i \in DOMAIN screen : screen[i].kind = kind
Shows(kind, text) == \E i \in DOMAIN screen : screen[i] = Element(kind, text)
CountKind(kind) == Cardinality({i \in DOMAIN screen : screen[i].kind = kind})
CountCall(call) == Cardinality({i \in DOMAIN calls : calls[i] = call})
WidgetKinds == {"text_input", "selectbox", "number_input", "slider", "button"}

\* The last run rendered a result panel.
ResultShown == output_string # <<>> /\ Has("markdown")
PanelLines == output_string[1].lines
LineNames == [i \in DOMAIN PanelLines |-> PanelLines[i].name]
CountLines(name) == Cardinality({i \in DOMAIN PanelLines : PanelLines[i].name = name})

\* C1: a run in which the button is pressed while the name field is empty
\* renders the warning 'Please enter the Employee Name.' and nothing else from
\* the handler: predict is not called, no feature table is built, no result
\* panel, balloons or error is rendered.
C1_EmptyNameOnlyWarns ==
    (button /\ employee_name = "") =>
        /\ Shows("warning", NAME_WARNING)
        /\ CountKind("warning") = 1
        /\ screen[Len(screen)] = Element("warning", NAME_WARNING)
        /\ CountCall(PREDICT_CALL) = 0
        /\ CountCall(SLEEP_CALL) = 0
        /\ input_data = <<>>
        /\ prediction = <<>>
        /\ output_string = <<>>
        /\ predicted_salary_usd = <<>>
        /\ ~Has("markdown")
        /\ ~Has("balloons")
        /\ ~Has("error")

C1_Witness ==
    /\ button
    /\ employee_name = ""
    /\ Shows("warning", NAME_WARNING)
    /\ loadCalls > 2

\* C2: a rendered result has a local-currency line exactly when the currency
\* of the company location is neither USD nor INR; that line carries that
\* currency; USD and INR each appear on exactly one line; for "US" and "IN"
\* there is no local line.
C2_LocalLineIffNotUsdOrInr ==
    ResultShown =>
        LET currency == COUNTRY_CURRENCIES[company_location].name
        IN  /\ (Len(PanelLines) = 3) <=> (currency \notin {"USD", "INR"})
            /\ Len(PanelLines) \in {2, 3}
            /\ Len(PanelLines) = 3 =>
                  /\ PanelLines[3].name = currency
                  /\ PanelLines[3].symbol = COUNTRY_CURRENCIES[company_location].symbol
            /\ CountLines("USD") = 1
            /\ CountLines("INR") = 1
            /\ company_location \in {"US", "IN"} => Len(PanelLines) = 2

C2_Witness ==
    /\ ResultShown
    /\ company_location = "US"
    /\ LineNames = <<"USD", "INR">>

\* C3: for every country code of COUNTRY_CURRENCIES and every predicted
\* salary, the local value computed is the salary times the rate of the code,
\* and the result has an INR line whose amount is the salary times 83.5,
\* whatever the code.
C3_LocalIsUsdTimesRate ==
    (ResultShown /\ company_location \in DOMAIN COUNTRY_CURRENCIES) =>
        LET usd == predicted_salary_usd[1]
        IN  /\ predicted_salary_local = <<Times(usd, COUNTRY_CURRENCIES[company_location].rate)>>
            /\ PanelLines[2].name = "INR"
            /\ PanelLines[2].amount = FormatCents(RoundToCents(Times(usd, USD_TO_INR_RATE)))
            /\ Len(PanelLines) = 3 =>
                  PanelLines[3].amount =
                      FormatCents(RoundToCents(Times(usd, COUNTRY_CURRENCIES[company_location].rate)))

C3_Witness ==
    /\ ResultShown
    /\ company_location = "JP"
    /\ predicted_salary_usd = <<123456>>
    /\ Join(PanelLines[3].amount) = "193,825.92"
    /\ Join(PanelLines[2].amount) = "103,085.76"

\* C4: for a company location that is no key of COUNTRY_CURRENCIES the lookup
\* yields the default {'$', 'USD', 1.0}: the local salary equals the USD
\* salary, and a submission whose predict call returns a salary renders the
\* result with the USD and INR lines only, with no prediction error.
C4_UnmappedCodeDefaultsToUsd ==
    (button /\ employee_name # "" /\ company_location \notin DOMAIN COUNTRY_CURRENCIES
        /\ ~ExceptTaken) =>
        /\ ResultShown
        /\ ~Has("error")
        /\ local_currency_info = <<[symbol |-> "$", name |-> "USD", rate |-> 100]>>
        /\ predicted_salary_local = <<<<0, 0>> \o DigitsOf(predicted_salary_usd[1])>>
        /\ LineNames = <<"USD", "INR">>

C4_Witness ==
    /\ ResultShown
    /\ company_location = "KE"
    /\ local_currency_info[1].name = "USD"
    /\ Len(PanelLines) = 2

\* C5: a run whose joblib.load fails, the file being absent or not loadable,
\* renders one error message and stops: no widget and no button is rendered,
\* the button is not evaluated, predict is not called; and 'model loaded
\* successfully' is rendered only by a run whose load succeeded.
C5_LoadFailureStopsRun ==
    /\ artifact \in {"missing", "malformed"} =>
          /\ Len(screen) = 1
          /\ screen[1].kind = "error"
          /\ artifact = "missing" => screen[1].text = NOT_FOUND_MESSAGE
          /\ \A i \in DOMAIN screen : screen[i].kind \notin WidgetKinds
          /\ ~button
          /\ calls = <<LOAD_CALL>>
          /\ prediction = <<>>
          /\ model_pipeline = "unbound"
    /\ Shows("success", LOADED_MESSAGE) => (artifact = "ok" /\ model_pipeline = "loaded")

C5_Witness ==
    /\ artifact = "malformed"
    /\ Has("error")
    /\ employee_name = "Jane Doe"
    /\ loadCalls > 2

\* C6: a submission whose predict call raises (or whose result has no first
\* element) ends in the except clause: the error message and the 'check your
\* input values' suggestion are rendered last, no result panel and no balloons
\* are rendered, the form with its button is on the page and a further
\* submission is possible; and a valid submission with a working predict
\* that follows a failed one renders a result.
C6_PredictionFailureIsRecoverable ==
    /\ ExceptTaken =>
          /\ button /\ employee_name # ""
          /\ Len(screen) >= 2
          /\ screen[Len(screen) - 1].kind = "error"
          /\ screen[Len(screen) - 1].text
                \in {"An error occurred during prediction: ValueError",
                     "An error occurred during prediction: IndexError"}
          /\ screen[Len(screen)] = Element("warning", CHECK_INPUT_WARNING)
          /\ CountKind("error") = 1
          /\ ~Has("markdown")
          /\ ~Has("balloons")
          /\ output_string = <<>>
          /\ Shows("button", "Predict Salary")
          /\ loadCalls < MaxRuns => ENABLED PressPredict
    /\ (prev_failed /\ button /\ employee_name # "" /\ ~ExceptTaken) =>
          /\ ResultShown
          /\ Has("balloons")
          /\ ~Has("error")

C6_Witness ==
    /\ prev_failed
    /\ button
    /\ ResultShown
    /\ Has("balloons")

\* C7 as stated: in a valid submission the predict call comes first and the
\* one-second delay follows immediately after it.
C7_PredictThenDelay ==
    (button /\ employee_name # "") =>
        \E i \in 1 .. Len(calls) - 1 :
            calls[i] = PREDICT_CALL /\ calls[i + 1] = SLEEP_CALL

\* C7 as amended: in a valid submission the one-second delay comes first and
\* the single predict call follows immediately after it, as the last call of
\* the run.
C7_DelayThenPredict ==
    (button /\ employee_name # "") =>
        /\ CountCall(SLEEP_CALL) = 1
        /\ CountCall(PREDICT_CALL) = 1
        /\ Len(calls) >= 2
        /\ calls[Len(calls) - 1] = SLEEP_CALL
        /\ calls[Len(calls)] = PREDICT_CALL

C7_Witness ==
    /\ button
    /\ employee_name # ""
    /\ ResultShown
    /\ calls = <<LOAD_CALL, SLEEP_CALL, PREDICT_CALL>>

\* C8 as stated: the serving process calls joblib.load at most once, however
\* many script runs the interactions trigger.
C8_LoadedOnce == loadCalls <= 1

\* C9: a run in which the button is pressed with a non-empty name calls
\* predict exactly once, on a table of one row whose columns are the features
\* of the training script in their order and whose values are the widget
\* values; the salary is the first element of the predictions returned.
C9_OneRowInTrainingOrder ==
    (button /\ employee_name # "") =>
        /\ CountCall(PREDICT_CALL) = 1
        /\ Len(input_data) = 1
        /\ input_data[1].columns = features
        /\ Len(input_data[1].data) = 1
        /\ input_data[1].data[1] =
              <<experience_level, job_title, company_location, remote_ratio, work_year>>
        /\ Len(prediction) = 1
        /\ ~ExceptTaken =>
              /\ predicted_salary_usd = <<prediction[1].preds[1]>>
              /\ ResultShown

C9_Witness ==
    /\ button
    /\ employee_name # ""
    /\ prediction # <<>>
    /\ Len(prediction[1].preds) = 2
    /\ predicted_salary_usd = <<123456>>
    /\ company_location = "GB"

IsDigit(c) == c \in Range(DIGIT_CHARS)
DigitValue(c) == CHOOSE d \in 0 .. 9 : DIGIT_CHARS[d + 1] = c

\* 'd.dd', 'ddd.dd', 'd,ddd.dd', ...: groups of three digits separated by
\* commas, a first group of one to three digits with no leading zero (a lone
\* 0 aside), a point, two digits.
WellFormed(chars) ==
    LET n == Len(chars)
        w == n - 3
    IN  /\ n >= 4
        /\ chars[n - 2] = "."
        /\ IsDigit(chars[n - 1])
        /\ IsDigit(chars[n])
        /\ \A p \in 1 .. w :
              IF (w - p + 1) % 4 = 0 THEN chars[p] = "," ELSE IsDigit(chars[p])
        /\ chars[1] # ","
        /\ w > 1 => chars[1] # "0"

RECURSIVE CentsRead(_, _)
\* The number of cents a formatted amount reads as.
CentsRead(chars, acc) ==
    IF chars = <<>> THEN acc
    ELSE IF IsDigit(Head(chars))
    THEN CentsRead(Tail(chars), 10 * acc + DigitValue(Head(chars)))
    ELSE CentsRead(Tail(chars), acc)

\* C10: every amount of a result is rendered with thousands separators and
\* exactly two decimals; the first line is the salary in USD, the second the
\* salary times 83.5 (167/2; the salaries drawn are even numbers of cents) in
\* INR; and the request {Senior, Data Scientist, IN, 50, 2024} with a
\* predicted 100000.00 renders '$100,000.00 (USD)' and
\* '<rupee sign>8,350,000.00 (INR)' and no third line.
C10_AmountsFormatted ==
    ResultShown =>
        LET usd == predicted_salary_usd[1]
        IN  /\ \A i \in DOMAIN PanelLines : WellFormed(PanelLines[i].amount)
            /\ PanelLines[1].symbol = "$"
            /\ PanelLines[1].name = "USD"
            /\ CentsRead(PanelLines[1].amount, 0) = usd
            /\ PanelLines[2].symbol = "N{INDIAN RUPEE SIGN}"
            /\ PanelLines[2].name = "INR"
            /\ CentsRead(PanelLines[2].amount, 0) = (usd \div 2) * 167
            /\ (/\ experience_level = "Senior"
                /\ job_title = "Data Scientist"
                /\ company_location = "IN"
                /\ remote_ratio = 50
                /\ work_year = 2024
                /\ usd = 10000000) =>
                  [i \in DOMAIN PanelLines |-> LineText(PanelLines[i])]
                      = <<"$100,000.00 (USD)", "N{INDIAN RUPEE SIGN}8,350,000.00 (INR)">>

C10_Witness ==
    /\ ResultShown
    /\ experience_level = "Senior"
    /\ job_title = "Data Scientist"
    /\ company_location = "IN"
    /\ remote_ratio = 50
    /\ work_year = 2024
    /\ predicted_salary_usd = <<10000000>>
    /\ LineText(PanelLines[1]) = "$100,000.00 (USD)"
    /\ Len(PanelLines) = 2

\* The training script has ended: normally, by exit(), or by an exception.
TrainEnded == train.pc \in {"done", "exited", "crashed"}
PrintedMessage(msg, arg) ==
    \E i \in DOMAIN train.printed : train.printed[i] = Printed(msg, arg)

\* C11 as stated: when the dataset file is missing, or any of the six
\* required columns (the five features or the target) is absent from it, the
\* training script reports the problem (for columns, it prints the list of
\* the missing ones) and exits before fitting; the artifact is written only
\* after a completed fit and evaluation.
C11_MissingInputReportedBeforeFit ==
    /\ (TrainEnded /\ ~train.dataset.exists) =>
          /\ train.pc = "exited"
          /\ PrintedMessage(DATASET_NOT_FOUND, <<>>)
          /\ ~train.fitted /\ ~train.dumped
    /\ (TrainEnded /\ train.dataset.exists
          /\ \E col \in Range(features) \cup {"salary_in_usd"} : col \notin train.dataset.columns) =>
          /\ train.pc = "exited"
          /\ \E i \in DOMAIN train.printed :
                /\ train.printed[i].msg = MISSING_COLUMNS
                /\ Range(train.printed[i].arg) =
                      (Range(features) \cup {"salary_in_usd"}) \ train.dataset.columns
          /\ ~train.fitted /\ ~train.dumped
    /\ train.dumped => (train.fitted /\ train.evaluated)

\* C12: every country code the company-location select box offers is a key
\* of COUNTRY_CURRENCIES, so the selected code is always a key and the
\* currency looked up for a request is the entry of its code, never the
\* default taken for want of one; and the remote ratio of every request is
\* one of 0, 5, ..., 100 and its work year one of 2020..2025.
C12_FormRequestsAreInRange ==
    /\ \A i \in DOMAIN company_location_options :
          company_location_options[i] \in DOMAIN COUNTRY_CURRENCIES
    /\ company_location \in DOMAIN COUNTRY_CURRENCIES
    /\ remote_ratio \in {5 * k : k \in 0 .. 20}
    /\ work_year \in 2020 .. 2025
    /\ input_data # <<>> =>
          LET row == input_data[1].data[1]
          IN  /\ row[3] \in DOMAIN COUNTRY_CURRENCIES
              /\ row[4] \in {5 * k : k \in 0 .. 20}
              /\ row[5] \in 2020 .. 2025
    /\ local_currency_info # <<>> =>
          /\ company_location \in DOMAIN COUNTRY_CURRENCIES
          /\ local_currency_info[1] = COUNTRY_CURRENCIES[company_location]

C12_Witness ==
    /\ ResultShown
    /\ company_location = "VN"
    /\ remote_ratio = 50
    /\ work_year = 2020
    /\ input_data[1].data[1] = <<experience_level, job_title, "VN", 50, 2020>>
    /\ local_currency_info[1].name = "VND"

\* What the button handler rendered in the last run: the elements after the
\* button.
ButtonIndex == CHOOSE i \in DOMAIN screen : screen[i].kind = "button"
HandlerOutput == SubSeq(screen, ButtonIndex + 1, Len(screen))

NoOutput == HandlerOutput = <<>>
NameWarned == HandlerOutput = <<Element("warning", NAME_WARNING)>>
ResultPanel ==
    /\ Len(HandlerOutput) = 2
    /\ HandlerOutput[1].kind = "markdown"
    /\ HandlerOutput[2].kind = "balloons"
PredictionError ==
    /\ Len(HandlerOutput) = 2
    /\ HandlerOutput[1].kind = "error"
    /\ HandlerOutput[2] = Element("warning", CHECK_INPUT_WARNING)

OutcomesHeld ==
    {o \in {"none", "warning", "result", "error"} :
        \/ o = "none" /\ NoOutput
        \/ o = "warning" /\ NameWarned
        \/ o = "result" /\ ResultPanel
        \/ o = "error" /\ PredictionError}

\* The outcome as a function of the run's own inputs: whether the button was
\* pressed, the name in the field, and what the model answered.
OutcomeOfInputs ==
    IF ~button THEN "none"
    ELSE IF employee_name = "" THEN "warning"
    ELSE IF prediction # <<>> /\ ~prediction[1].raises /\ prediction[1].preds # <<>>
    THEN "result"
    ELSE "error"

\* The inputs of the last run and everything it rendered and bound.
RunInputs ==
    <<employee_name, experience_level, job_title, company_location, work_year,
      remote_ratio, button, artifact, prediction>>
RunOutputs ==
    <<screen, calls, model_pipeline, input_data, predicted_salary_usd,
      local_currency_info, predicted_salary_local, output_string>>

\* In a run that loaded the model, the outcome and the amounts are those the
\* run's own inputs determine.
OutcomeFromInputsOnly ==
    model_pipeline = "loaded" =>
        /\ OutcomesHeld = {OutcomeOfInputs}
        /\ ResultPanel =>
              LET usd  == prediction[1].preds[1]
                  info == COUNTRY_CURRENCIES[company_location]
              IN  /\ CentsRead(PanelLines[1].amount, 0) = usd
                  /\ CentsRead(PanelLines[2].amount, 0) = (usd \div 2) * 167
                  /\ (Len(PanelLines) = 3) <=> (info.name \notin {"USD", "INR"})
                  /\ Len(PanelLines) = 3 =>
                        PanelLines[3] =
                            Line(info.symbol, FormatCents(RoundToCents(Times(usd, info.rate))), info.name)

\* C13: after the model has loaded, every script run ends in exactly one of
\* four outcomes (no output, the name warning, a result panel, a prediction
\* error), the one its own inputs determine; the amounts of a result are those
\* of the run's own prediction and company location; and a run with the same
\* inputs as the run before it renders and binds the same, whatever happened
\* earlier.
C13_OutcomeDependsOnRunOnly ==
    /\ []OutcomeFromInputsOnly
    /\ [][RunInputs' = RunInputs => RunOutputs' = RunOutputs]_vars

C13_Witness ==
    /\ model_pipeline = "loaded"
    /\ prev_failed
    /\ ~button
    /\ NoOutput
    /\ OutcomesHeld = {"none"}
    /\ loadCalls >= 3

====
